---- MODULE Spec2Model ----
(***************************************************************************)
(* A model of nfc/tt3.py: the Type 3 Tag channel (Type3Tag) and the NDEF   *)
(* store (NDEF) built on it.  One step of the model is one handler of the  *)
(* program up to and including one blocking transport exchange             *)
(* (dev.tt3_exchange); the tag and the transport are the environment.      *)
(***************************************************************************)
EXTENDS Integers, Sequences, FiniteSets, TLC

(* ------------------------------------------------------------------ *)
(* Bounds of the model                                                 *)
(* ------------------------------------------------------------------ *)
\* nmaxb advertised by the tags of the model (capacity = MaxBlocks * 16)
MaxBlocks == 2
\* nbr and nbw advertised by the tags of the model range over 0..MaxNb
MaxNb == 2
\* exchanges recorded per operation (only a loop that never ends reaches it)
MaxLog == 6

(* ------------------------------------------------------------------ *)
(* Program constants                                                   *)
(* ------------------------------------------------------------------ *)
ndef_read_service == 11
ndef_write_service == 9
\* bytes of one block of tag memory
BlockSize == 16
\* the system code of an NDEF tag, "\x12\xFC"
NdefSc == <<18, 252>>
\* some other system code
OtherSc == <<136, 180>>
\* the tag's manufacturer id (8 bytes)
Idm == <<1, 18, 3, 20, 5, 22, 7, 24>>
\* a different identity, for the responses of another tag
OtherIdm == <<9, 18, 3, 20, 5, 22, 7, 24>>

(* ------------------------------------------------------------------ *)
(* Python sequence primitives                                          *)
(* ------------------------------------------------------------------ *)
Min(a, b) == IF a < b THEN a ELSE b

\* s[a:b] for 0 <= a, 0 <= b
PySlice(s, a, b) ==
  LET hi == Min(b, Len(s))
  IN  IF a >= hi THEN <<>> ELSE SubSeq(s, a + 1, hi)

\* s[a:]
PyFrom(s, a) == PySlice(s, a, Len(s))

\* n * "\x00" : the empty string when n <= 0
Zeros(n) == IF n <= 0 THEN <<>> ELSE [i \in 1..n |-> 0]

\* range(a, b)
PyRange(a, b) == IF b <= a THEN <<>> ELSE [i \in 1..(b - a) |-> a + i - 1]

\* s.startswith(p)
StartsWith(s, p) == Len(s) >= Len(p) /\ SubSeq(s, 1, Len(p)) = p

RECURSIVE SumSeq(_)
SumSeq(s) == IF s = <<>> THEN 0 ELSE Head(s) + SumSeq(Tail(s))

RECURSIVE Flatten(_)
Flatten(ss) == IF ss = <<>> THEN <<>> ELSE Head(ss) \o Flatten(Tail(ss))

\* the optional value None / a value
None == <<>>
Some(v) == <<v>>

(* ------------------------------------------------------------------ *)
(* NDEF: the attribute block                                           *)
(* ------------------------------------------------------------------ *)
split2(x) == <<x \div 256, x % 256>>
split3(x) == <<x \div 65536, (x \div 256) % 256, x % 256>>

\* sum(self.attr[0:14])
AttrSum(a) == SumSeq(PySlice(a, 0, 14))

\* a variant of ChecksumOk that compares the low byte of the sum only
ChecksumOk_low(a) == AttrSum(a) % 256 = a[16]

\* the test of NDEF.__init__
ChecksumOk(a) == AttrSum(a) = a[15] * 256 + a[16]

\* self.attr[14:16] = split2(sum(self.attr[0:14]))
WithChecksum(a) == PySlice(a, 0, 14) \o split2(AttrSum(a))

\* NDEF.capacity
capacity(a) == (a[4] * 256 + a[5]) * 16

\* a variant of writeable that tests the attribute list, not its byte 10
writeable_list(a) == a # <<>>

\* NDEF.writeable
writeable(a) == a[11] # 0

\* NDEF.version, the pair that "%d.%d" prints
version(a) == <<a[1] \div 16, a[1] % 16>>

\* length = self.attr[11]*65536 + self.attr[12]*256 + self.attr[13]
AttrLn(a) == a[12] * 65536 + a[13] * 256 + a[14]

\* a variant of BlockRange that does not count a partly filled last block
BlockRange_floor(length) == PyRange(1, length \div 16 + 1)

\* range(1, (length+15)/16 + 1)
BlockRange(length) == PyRange(1, (length + 15) \div 16 + 1)

(* ------------------------------------------------------------------ *)
(* Type3Tag: command frames and response parsing                       *)
(* ------------------------------------------------------------------ *)
\* chr(len(cmd)+1) + cmd
Framed(cmd) == <<Len(cmd) + 1>> \o cmd

\* ("%02X%02X" % (service%256, service/256)).decode("hex")
ServiceBytes(service) == <<service % 256, service \div 256>>

\* ''.join(["\x00" + chr(b%256) + chr(b/256) for b in blocks])
BlockList(blks) == Flatten([i \in 1..Len(blks) |-> <<0, blks[i] % 256, blks[i] \div 256>>])

\* the frame Type3Tag.read sends
ReadCmd(blks, service) ==
  Framed(<<6>> \o Idm \o <<1>> \o ServiceBytes(service) \o <<Len(blks)>> \o BlockList(blks))

\* the frame Type3Tag.write sends
WriteCmd(bytes, blks, service) ==
  Framed(<<8>> \o Idm \o <<1>> \o ServiceBytes(service) \o <<Len(blks)>> \o BlockList(blks) \o bytes)

\* the frame Type3Tag.is_present sends
PresenceCmd == Framed(<<4>> \o Idm)

\* resp.startswith(chr(len(resp)) + opcode + self.idm)
PrefixOk(resp, opcode) == StartsWith(resp, <<Len(resp), opcode>> \o Idm)

\* a variant of ParseResponse in which write lacks the test of the status byte
ParseResponse_nostatus(x, opcode) ==
  IF x.raised
  THEN [err |-> "IOError", status |-> <<>>, payload |-> <<>>]
  ELSE IF ~PrefixOk(x.resp, opcode)
  THEN [err |-> "invalid data", status |-> <<>>, payload |-> <<>>]
  ELSE IF Len(x.resp) < 12
  THEN [err |-> "IndexError", status |-> <<>>, payload |-> <<>>]
  ELSE IF opcode = 7 /\ x.resp[12] # 0
  THEN [err |-> "tt3 command error", status |-> PySlice(x.resp, 11, 13), payload |-> <<>>]
  ELSE [err |-> "none", status |-> <<>>, payload |-> PyFrom(x.resp, 13)]

\* what Type3Tag.read / Type3Tag.write make of the outcome x of the exchange:
\* err is the exception raised ("none": the call returns), status the two
\* bytes the command error carries, payload the value returned.  resp[11] of
\* a response of fewer than 12 bytes is an IndexError.
ParseResponse(x, opcode) ==
  IF x.raised
  THEN [err |-> "IOError", status |-> <<>>, payload |-> <<>>]
  ELSE IF ~PrefixOk(x.resp, opcode)
  THEN [err |-> "invalid data", status |-> <<>>, payload |-> <<>>]
  ELSE IF Len(x.resp) < 12
  THEN [err |-> "IndexError", status |-> <<>>, payload |-> <<>>]
  ELSE IF x.resp[12] # 0
  THEN [err |-> "tt3 command error", status |-> PySlice(x.resp, 11, 13), payload |-> <<>>]
  ELSE [err |-> "none", status |-> <<>>, payload |-> PyFrom(x.resp, 13)]

(* ------------------------------------------------------------------ *)
(* The environment: the tag behind dev.tt3_exchange                    *)
(* ------------------------------------------------------------------ *)
\* block numbers and data of a read / write command frame
CmdBlocks(f) == [i \in 1..f[14] |-> f[13 + 3 * i] + 256 * f[14 + 3 * i]]
CmdData(f) == PyFrom(f, 14 + 3 * f[14])

\* the tag stores the bytes it receives, block after block
RECURSIVE TagStore(_, _, _)
TagStore(mem, blks, bytes) ==
  IF blks = <<>> THEN mem
  ELSE LET chunk == PySlice(bytes, 0, BlockSize)
           blk   == chunk \o PyFrom(mem[Head(blks)], Len(chunk))
       IN  TagStore([mem EXCEPT ![Head(blks)] = blk], Tail(blks), PyFrom(bytes, BlockSize))

\* the tag can execute the command: it names blocks the tag has and, for a
\* write, carries no more data than the blocks hold
CanExecute(f, mem) ==
  /\ \A i \in 1..f[14] : CmdBlocks(f)[i] \in DOMAIN mem
  /\ f[2] = 8 => Len(CmdData(f)) <= BlockSize * f[14]

\* the memory after the tag executed the command
Executed(f, mem) == IF f[2] = 8 THEN TagStore(mem, CmdBlocks(f), CmdData(f)) ELSE mem

\* what follows the two status flags in the response to an executed command:
\* for a read the block count and the blocks, for a write nothing
Payload(f, mem) ==
  IF f[2] = 6 THEN <<f[14]>> \o Flatten([i \in 1..f[14] |-> mem[CmdBlocks(f)[i]]]) ELSE <<>>

\* the ways one exchange can end: rsp names the kind of answer, raised says
\* that tt3_exchange raised IOError, resp is the response frame and mem the
\* tag memory afterwards.  A response frame is the length byte, the response
\* opcode, the identity, status flag 1, status flag 2 and the rest.  The tag
\* executes a command only when it answers with both flags 00; every other
\* answer leaves its memory as it was.
Exchange(f, mem) ==
  {[rsp |-> "io", raised |-> TRUE, resp |-> <<>>, mem |-> mem],
   [rsp |-> "status", raised |-> FALSE,
    resp |-> Framed(<<f[2] + 1>> \o Idm \o <<1, 162>>), mem |-> mem],
   [rsp |-> "frame", raised |-> FALSE,
    resp |-> Framed(<<f[2] + 1>> \o OtherIdm \o <<0, 0>>), mem |-> mem]}
  \cup
  IF CanExecute(f, mem)
  THEN {[rsp |-> "ok", raised |-> FALSE,
         resp |-> Framed(<<f[2] + 1>> \o Idm \o <<0, 0>> \o Payload(f, mem)),
         mem |-> Executed(f, mem)]}
  ELSE {}

\* a variant of T3Read that lacks the test of the prefix when it reads
\* blocks of the message
T3Read_noprefix(blks, mem) ==
  {[rsp |-> x.rsp, mem |-> x.mem,
    ret |-> IF blks # <<0>> /\ ParseResponse(x, 7).err = "invalid data"
            THEN [err |-> "none", status |-> <<>>, payload |-> <<>>]
            ELSE ParseResponse(x, 7)] :
     x \in Exchange(ReadCmd(blks, ndef_read_service), mem)}

\* Type3Tag.read(blocks): the results the call can have on tag memory mem
T3Read(blks, mem) ==
  {[rsp |-> x.rsp, mem |-> x.mem, ret |-> ParseResponse(x, 7)] :
     x \in Exchange(ReadCmd(blks, ndef_read_service), mem)}

\* Type3Tag.write(data, blocks)
T3Write(bytes, blks, mem) ==
  {[rsp |-> x.rsp, mem |-> x.mem, ret |-> ParseResponse(x, 9)] :
     x \in Exchange(WriteCmd(bytes, blks, ndef_write_service), mem)}

(* ------------------------------------------------------------------ *)
(* State                                                               *)
(* ------------------------------------------------------------------ *)
VARIABLES
  tag,      \* the tag's memory: block number -> 16 bytes (environment)
  sc,       \* Type3Tag.sc, the system code the tag was found with
  pc,       \* where the program is: "new", "idle", "rloop", "wloop", "wfin"
  ndef,     \* Type3Tag._ndef is not None
  attr,     \* NDEF.attr
  data,     \* NDEF.data: None or Some(message)
  blocks,   \* the local list blocks of the running message read / write
  offset,   \* the local offset of the running message write
  buf,      \* the local string data of the running message read / write
  log,      \* the Type3Tag.read / write calls of the current operation
  opname,   \* the current (or last) operation
  arg,      \* its argument
  outcome,  \* "running", "ok" or the error it raised
  result,   \* the value it returned
  prev,     \* the operation before it, when it returned: "read", "write"; or "other"
  io        \* one call on the channel by itself: the response it gets, what it returns

vars == <<tag, sc, pc, ndef, attr, data, blocks, offset, buf, log, opname, arg, outcome, result, prev, io>>

\* blocks of the tag's memory besides block 0
TagBlocks == MaxBlocks + 1

\* message lengths written: empty, every whole number of blocks up to the
\* capacity, and one byte more than each
Lens == {0} \cup UNION {{16 * k, 16 * k + 1} : k \in 1..MaxBlocks}

\* the message of n bytes that starts with byte s0; no byte of it is zero
Msg(s0, n) == [i \in 1..n |-> s0 + ((i - 1) % 100)]
Messages == {Msg(1, n) : n \in Lens}

\* an attribute block as the tag holds it
TagAttr(nbr, nbw, rw, ln) ==
  WithChecksum(<<16, nbr, nbw, MaxBlocks \div 256, MaxBlocks % 256, 161, 162, 163, 164, 0, rw>>
               \o split3(ln) \o <<0, 0>>)

\* a to which one checksum byte (15 or 16) is wrong
Corrupted(a, i) == [a EXCEPT ![i] = (a[i] + 1) % 256]

\* content of block b of a tag before anything was written
FreshBlock(b) == [i \in 1..BlockSize |-> 224 + b]

\* the first n bytes of the tag's blocks 1..
TagBytes(mem, n) == PySlice(Flatten([b \in 1..TagBlocks |-> mem[b]]), 0, n)

\* no call on the channel by itself
NoCall == [op |-> "none", raised |-> FALSE, resp |-> <<>>, done |-> FALSE, sent |-> <<>>,
           err |-> "none", status |-> <<>>, payload |-> <<>>, present |-> FALSE]

Init ==
  /\ \E nbr \in 0..MaxNb, nbw \in 0..MaxNb, rw \in {0, 1},
        ln \in {17, 16 * MaxBlocks + 1}, bad \in {0, 15, 16} :
       LET a == TagAttr(nbr, nbw, rw, ln)
       IN  tag = [b \in 0..TagBlocks |->
                    IF b = 0 THEN (IF bad = 0 THEN a ELSE Corrupted(a, bad))
                    ELSE FreshBlock(b)]
  /\ sc \in {NdefSc, OtherSc}
  /\ pc = "new"
  /\ ndef = FALSE
  /\ attr = <<>>
  /\ data = None
  /\ blocks = <<>>
  /\ offset = 0
  /\ buf = <<>>
  /\ log = <<>>
  /\ opname = "none"
  /\ arg = <<>>
  /\ outcome = "none"
  /\ result = <<>>
  /\ prev = "other"
  /\ io = NoCall

\* one call of Type3Tag.read / write as the log records it: the blocks named,
\* the bytes sent (write) or returned (read), the kind of answer it got
Call(cmd, blks, bytes, rsp) == [cmd |-> cmd, blocks |-> blks, data |-> bytes, rsp |-> rsp]

\* the log keeps the first MaxLog - 1 calls of an operation and its latest one
Logged(l, c) == IF Len(l) < MaxLog THEN Append(l, c) ELSE Append(SubSeq(l, 1, MaxLog - 1), c)

\* an operation begins: the one before it is remembered
Begin(name, a) ==
  /\ opname' = name
  /\ arg' = a
  /\ prev' = IF opname \in {"read", "write"} /\ outcome = "ok" THEN opname ELSE "other"

\* the operation ends: its locals are gone
Return(oc, res) ==
  /\ pc' = "idle"
  /\ outcome' = oc
  /\ result' = res
  /\ blocks' = <<>>
  /\ offset' = 0
  /\ buf' = <<>>

(* ------------------------------------------------------------------ *)
(* Type3Tag.__init__ and NDEF.__init__                                 *)
(* ------------------------------------------------------------------ *)
\* the exceptions of the module: IOError (of the transport, "invalid data",
\* "tt3 command error"), IndexError and ValueError ("checksum error")
IOErrors == {"IOError", "invalid data", "tt3 command error"}
Exceptions == IOErrors \cup {"IndexError", "checksum error"}

\* a variant of Caught that catches what is_present catches
Caught_ioerror(e) == e \in IOErrors

\* try: self._ndef = NDEF(self) / except Exception: pass
Caught(e) == e \in Exceptions

\* NDEF.__init__ raised e: Type3Tag.__init__ goes on without a store when it
\* catches e, and else raises e itself, so that there is no channel
NoStore(e) ==
  /\ ndef' = FALSE
  /\ attr' = <<>>
  /\ outcome' = e
  /\ result' = <<>>
  /\ blocks' = <<>>
  /\ offset' = 0
  /\ buf' = <<>>
  /\ pc' = IF Caught(e) THEN "idle" ELSE "new"

\* Type3Tag(dev, idm, pmm, sc): a new channel and, for an NDEF tag, a new
\* store.  outcome keeps the exception of NDEF.__init__ that Type3Tag.__init__
\* swallows.
Construct ==
  /\ UNCHANGED io
  /\ pc \in {"new", "idle"}
  /\ Begin("construct", <<>>)
  /\ data' = None
  /\ UNCHANGED sc
  /\ IF sc # NdefSc
     THEN /\ ndef' = FALSE
          /\ attr' = <<>>
          /\ log' = <<>>
          /\ UNCHANGED tag
          /\ Return("not ndef", <<>>)
     ELSE \E x \in T3Read(<<0>>, tag) :
            /\ tag' = x.mem
            /\ log' = <<Call("read", <<0>>, x.ret.payload, x.rsp)>>
            /\ IF x.ret.err # "none"
               THEN NoStore(x.ret.err)
               ELSE IF ~ChecksumOk(x.ret.payload)
               THEN NoStore("checksum error")
               ELSE /\ ndef' = TRUE
                    /\ attr' = x.ret.payload
                    /\ Return("ok", <<>>)

(* ------------------------------------------------------------------ *)
(* NDEF.message, the getter                                            *)
(* ------------------------------------------------------------------ *)
\* nb_max = self.attr[1]
ReadMax(a) == a[2]

\* self.data is None
CacheMiss(d) == d = None

\* data[0:length]
Truncated(d, length) == PySlice(d, 0, length)

\* a variant of CacheOnRead that does not keep the message
CacheOnRead_forget(v) == None

\* self.data = data[0:length]
CacheOnRead(v) == Some(v)

\* blocks[0:nb_max] and what del blocks[0:nb_max] leaves
Chunk(blks, nb) == PySlice(blks, 0, nb)
Rest(blks, nb) == PyFrom(blks, nb)

\* the getter up to its loop: a cached message is returned at once
ReadBegin ==
  /\ UNCHANGED io
  /\ pc = "idle"
  /\ ndef
  /\ Begin("read", <<>>)
  /\ log' = <<>>
  /\ UNCHANGED <<tag, sc, ndef, attr, data, offset>>
  /\ IF ~CacheMiss(data)
     THEN Return("ok", data[1])
     ELSE /\ pc' = "rloop"
          /\ blocks' = BlockRange(AttrLn(attr))
          /\ buf' = <<>>
          /\ outcome' = "running"
          /\ result' = <<>>

\* one turn of: while len(blocks) > nb_max
ReadChunk ==
  /\ UNCHANGED io
  /\ pc = "rloop"
  /\ Len(blocks) > ReadMax(attr)
  /\ \E x \in T3Read(Chunk(blocks, ReadMax(attr)), tag) :
       /\ tag' = x.mem
       /\ log' = Logged(log, Call("read", Chunk(blocks, ReadMax(attr)), x.ret.payload, x.rsp))
       /\ IF x.ret.err # "none"
          THEN Return(x.ret.err, <<>>)
          ELSE /\ buf' = buf \o x.ret.payload
               /\ blocks' = Rest(blocks, ReadMax(attr))
               /\ UNCHANGED <<pc, outcome, result, offset>>
  /\ UNCHANGED <<sc, ndef, attr, data, opname, arg, prev>>

\* after the loop: the read of the remaining blocks, the truncation, the cache
ReadLast ==
  /\ UNCHANGED io
  /\ pc = "rloop"
  /\ ~(Len(blocks) > ReadMax(attr))
  /\ IF Len(blocks) > 0
     THEN \E x \in T3Read(blocks, tag) :
            /\ tag' = x.mem
            /\ log' = Logged(log, Call("read", blocks, x.ret.payload, x.rsp))
            /\ IF x.ret.err # "none"
               THEN /\ Return(x.ret.err, <<>>)
                    /\ UNCHANGED data
               ELSE /\ data' = CacheOnRead(Truncated(buf \o x.ret.payload, AttrLn(attr)))
                    /\ Return("ok", Truncated(buf \o x.ret.payload, AttrLn(attr)))
     ELSE /\ data' = CacheOnRead(Truncated(buf, AttrLn(attr)))
          /\ Return("ok", Truncated(buf, AttrLn(attr)))
          /\ UNCHANGED <<tag, log>>
  /\ UNCHANGED <<sc, ndef, attr, opname, arg, prev>>

(* ------------------------------------------------------------------ *)
(* NDEF.message, the setter                                            *)
(* ------------------------------------------------------------------ *)
\* a variant of WriteMax that takes the read limit
WriteMax_nbr(a) == a[2]

\* nb_max = self.attr[2]
WriteMax(a) == a[3]

\* a variant of TooMuch that also rejects a message of exactly capacity bytes
TooMuch_ge(m, a) == Len(m) >= capacity(a)

\* len(data) > self.capacity
TooMuch(m, a) == Len(m) > capacity(a)

\* a variant of CacheOnWrite that keeps the message as padded for the tag
CacheOnWrite_padded(m) == Some(m \o Zeros(((Len(m) + 15) \div 16) * 16 - Len(m)))

\* self.data = data
CacheOnWrite(m) == Some(m)

\* a variant of SetLength that assigns attr[10:13]
SetLength_shift(a, n) == PySlice(a, 0, 10) \o split3(n) \o PyFrom(a, 13)

\* self.attr[11:14] = split3(len(data))
SetLength(a, n) == PySlice(a, 0, 11) \o split3(n) \o PyFrom(a, 14)

\* a variant of InProgress that does not set the in-progress flag
InProgress_noflag(a, n) ==
  WithChecksum(SetLength(a, n))

\* attr[9] = 0x0F; attr[11:14] = split3(len(data)); attr[14:16] = split2(sum)
InProgress(a, n) ==
  WithChecksum(SetLength([a EXCEPT ![10] = 15], n))

\* a variant of Finished that keeps the checksum of the block in progress
Finished_stale(a) == [a EXCEPT ![10] = 0]

\* attr[9] = 0x00; attr[14:16] = split2(sum)
Finished(a) == WithChecksum([a EXCEPT ![10] = 0])

\* data += (len(blocks)*16 - len(data)) * '\x00'
PadLast(d, blks) == d \o Zeros(Len(blks) * 16 - Len(d))

\* the setter up to its loop: the two checks, the cache, the first write of
\* block 0
WriteBegin(m) ==
  /\ UNCHANGED io
  /\ pc = "idle"
  /\ ndef
  /\ Begin("write", m)
  /\ UNCHANGED <<sc, ndef>>
  /\ IF ~writeable(attr)
     THEN /\ Return("tag writing disabled", <<>>)
          /\ log' = <<>>
          /\ UNCHANGED <<tag, attr, data>>
     ELSE IF TooMuch(m, attr)
     THEN /\ Return("too much data", <<>>)
          /\ log' = <<>>
          /\ UNCHANGED <<tag, attr, data>>
     ELSE /\ data' = CacheOnWrite(m)
          /\ attr' = InProgress(attr, Len(m))
          /\ \E x \in T3Write(attr', <<0>>, tag) :
               /\ tag' = x.mem
               /\ log' = <<Call("write", <<0>>, attr', x.rsp)>>
               /\ IF x.ret.err # "none"
                  THEN Return(x.ret.err, <<>>)
                  ELSE /\ pc' = "wloop"
                       /\ blocks' = BlockRange(Len(m))
                       /\ offset' = 0
                       /\ buf' = m
                       /\ outcome' = "running"
                       /\ result' = <<>>

\* the setter called with some message
WriteStep == \E m \in Messages : WriteBegin(m)

\* one turn of: while len(blocks) > nb_max
WriteChunk ==
  /\ UNCHANGED io
  /\ pc = "wloop"
  /\ Len(blocks) > WriteMax(attr)
  /\ LET nb     == WriteMax(attr)
         length == nb * 16
         bytes  == PySlice(buf, offset, offset + length)
     IN  \E x \in T3Write(bytes, Chunk(blocks, nb), tag) :
           /\ tag' = x.mem
           /\ log' = Logged(log, Call("write", Chunk(blocks, nb), bytes, x.rsp))
           /\ IF x.ret.err # "none"
              THEN Return(x.ret.err, <<>>)
              ELSE /\ blocks' = Rest(blocks, nb)
                   /\ offset' = offset + length
                   /\ UNCHANGED <<pc, buf, outcome, result>>
  /\ UNCHANGED <<sc, ndef, attr, data, opname, arg, prev>>

\* after the loop: the remaining blocks are padded and written
WriteLast ==
  /\ UNCHANGED io
  /\ pc = "wloop"
  /\ ~(Len(blocks) > WriteMax(attr))
  /\ Len(blocks) > 0
  /\ LET bytes == PyFrom(PadLast(buf, blocks), offset)
     IN  \E x \in T3Write(bytes, blocks, tag) :
           /\ tag' = x.mem
           /\ log' = Logged(log, Call("write", blocks, bytes, x.rsp))
           /\ IF x.ret.err # "none"
              THEN Return(x.ret.err, <<>>)
              ELSE /\ pc' = "wfin"
                   /\ buf' = PadLast(buf, blocks)
                   /\ UNCHANGED <<blocks, offset, outcome, result>>
  /\ UNCHANGED <<sc, ndef, attr, data, opname, arg, prev>>

\* the end of the setter: the flag is cleared and block 0 written again
WriteFinish ==
  /\ UNCHANGED io
  /\ \/ pc = "wfin"
     \/ pc = "wloop" /\ ~(Len(blocks) > WriteMax(attr)) /\ ~(Len(blocks) > 0)
  /\ attr' = Finished(attr)
  /\ \E x \in T3Write(attr', <<0>>, tag) :
       /\ tag' = x.mem
       /\ log' = Logged(log, Call("write", <<0>>, attr', x.rsp))
       /\ IF x.ret.err # "none"
          THEN Return(x.ret.err, <<>>)
          ELSE Return("ok", <<>>)
  /\ UNCHANGED <<sc, ndef, data, opname, arg, prev>>

(* ------------------------------------------------------------------ *)
(* The environment: another device writes to the tag                   *)
(* ------------------------------------------------------------------ *)
ForeignBlock == [i \in 1..BlockSize |-> 238]

\* another device overwrites the first data block while the program is idle
TagChanged ==
  /\ UNCHANGED io
  /\ pc = "idle"
  /\ tag[1] # ForeignBlock
  /\ tag' = [tag EXCEPT ![1] = ForeignBlock]
  /\ UNCHANGED <<sc, pc, ndef, attr, data, blocks, offset, buf, log, opname, arg, outcome, result, prev>>

(* ------------------------------------------------------------------ *)
(* Specifications                                                      *)
(* ------------------------------------------------------------------ *)
Next ==
  \/ Construct
  \/ ReadBegin
  \/ ReadChunk
  \/ ReadLast
  \/ WriteStep
  \/ WriteChunk
  \/ WriteLast
  \/ WriteFinish

\* the program with exclusive access to the tag
Spec == Init /\ [][Next]_vars

\* the program on a tag that other devices write to as well
NextShared == Next \/ TagChanged
SpecShared == Init /\ [][NextShared]_vars

(* ------------------------------------------------------------------ *)
(* The channel by itself: one call, whatever the transport answers     *)
(* ------------------------------------------------------------------ *)
\* values of the bytes that follow the identity in a response
StatusBytes == {0, 1, 162}

\* responses of the transport to a command whose response code is opcode:
\* right and wrong code, right and wrong identity, every value of the three
\* bytes after the identity, with and without a byte after them; responses
\* that end before those bytes; a wrong length byte; nothing at all
ChannelResponses(opcode) ==
  LET full == {Framed(<<o>> \o id \o <<a, b, c>> \o pl) :
                  o \in {opcode, opcode + 2}, id \in {Idm, OtherIdm},
                  a \in StatusBytes, b \in StatusBytes, c \in StatusBytes,
                  pl \in {<<>>, <<77>>}}
      short == {Framed(<<o>> \o id \o st) :
                  o \in {opcode, opcode + 2}, id \in {Idm, OtherIdm},
                  st \in {<<>>, <<0>>, <<1>>, <<0, 0>>, <<1, 162>>}}
      wrong == {<<Len(f) + 1>> \o Tail(f) : f \in short}
  IN  full \cup short \cup wrong \cup {<<>>}

\* a call on the channel and the outcome of its exchange
ChannelCalls ==
  {[NoCall EXCEPT !.op = o, !.raised = TRUE] : o \in {"read", "write", "present"}}
  \cup {[NoCall EXCEPT !.op = "read", !.resp = f] : f \in ChannelResponses(7)}
  \cup {[NoCall EXCEPT !.op = "write", !.resp = f] : f \in ChannelResponses(9)}
  \cup {[NoCall EXCEPT !.op = "present", !.resp = f] : f \in ChannelResponses(5)}

\* a channel and its store on a tag that holds no message yet
InitChannel ==
  /\ tag = [b \in 0..TagBlocks |-> IF b = 0 THEN TagAttr(1, 1, 1, 0) ELSE FreshBlock(b)]
  /\ sc = NdefSc
  /\ pc = "idle"
  /\ ndef = TRUE
  /\ attr = TagAttr(1, 1, 1, 0)
  /\ data = None
  /\ blocks = <<>>
  /\ offset = 0
  /\ buf = <<>>
  /\ log = <<>>
  /\ opname = "construct"
  /\ arg = <<>>
  /\ outcome = "ok"
  /\ result = <<>>
  /\ prev = "other"
  /\ io \in ChannelCalls

\* the call has sent the frame cmd and returns or raises: nothing but its
\* outcome changes
Returned(cmd, ret) ==
  /\ io' = [io EXCEPT !.done = TRUE, !.sent = Append(@, cmd), !.err = ret.err,
                      !.status = ret.status, !.payload = ret.payload]
  /\ UNCHANGED <<tag, sc, pc, ndef, attr, data, blocks, offset, buf, log,
                 opname, arg, outcome, result, prev>>

\* Type3Tag.read(blocks): one exchange, then the tests of the response
ChannelRead ==
  /\ io.op = "read" /\ ~io.done
  /\ Returned(ReadCmd(<<1>>, ndef_read_service), ParseResponse(io, 7))

\* Type3Tag.write(data, blocks)
ChannelWrite ==
  /\ io.op = "write" /\ ~io.done
  /\ Returned(WriteCmd(Zeros(BlockSize), <<1>>, ndef_write_service), ParseResponse(io, 9))

\* a variant of Present that takes every response for the tag's
Present_any(x) == ~x.raised

\* rsp.startswith(chr(len(rsp)) + "\x05" + self.idm), False on IOError
Present(x) == IF x.raised THEN FALSE ELSE PrefixOk(x.resp, 5)

\* Type3Tag.is_present: one exchange; the IOError of the transport is caught
IsPresent ==
  /\ io.op = "present" /\ ~io.done
  /\ io' = [io EXCEPT !.done = TRUE, !.sent = Append(@, PresenceCmd), !.present = Present(io)]
  /\ UNCHANGED <<tag, sc, pc, ndef, attr, data, blocks, offset, buf, log,
                 opname, arg, outcome, result, prev>>

NextChannel ==
  \/ ChannelRead
  \/ ChannelWrite
  \/ IsPresent

\* one call on a channel, for every answer of the transport
SpecChannel == InitChannel /\ [][NextChannel]_vars

(* ------------------------------------------------------------------ *)
(* The attribute block as the properties read it                       *)
(* ------------------------------------------------------------------ *)
FieldNbr(a) == a[2]
FieldNbw(a) == a[3]
FieldCapacity(a) == (a[4] * 256 + a[5]) * BlockSize
FieldWritef(a) == a[10]
FieldRw(a) == a[11]
FieldLn(a) == (a[12] * 256 + a[13]) * 256 + a[14]
FieldChecksumOk(a) ==
  a[15] * 256 + a[16] =
    a[1] + a[2] + a[3] + a[4] + a[5] + a[6] + a[7] + a[8] + a[9] + a[10] + a[11] + a[12] + a[13] + a[14]

\* ceil(n / k)
CeilDiv(n, k) == (n + k - 1) \div k

\* the blocks named by the calls i..j of the log, in order
BlocksNamed(l, i, j) == Flatten([k \in 1..(j - i + 1) |-> l[i + k - 1].blocks])

\* the bytes carried by the calls i..j of the log, in order
BytesCarried(l, i, j) == Flatten([k \in 1..(j - i + 1) |-> l[i + k - 1].data])

\* the error a failed exchange raises
ErrorOf(rsp) ==
  CASE rsp = "io" -> "IOError"
    [] rsp = "frame" -> "invalid data"
    [] rsp = "status" -> "tt3 command error"
    [] OTHER -> "ok"

\* the variables of the program (all but the tag's memory)
progvars == <<sc, pc, ndef, attr, data, blocks, offset, buf, log, opname, arg, outcome, result, prev>>

\* this step is the program beginning the operation called name
Begins(name) == pc \in {"new", "idle"} /\ opname' = name /\ progvars' # progvars

\* a response that starts with its own length, the code and the tag's identity
FrameWellFormed(resp, opcode) ==
  /\ Len(resp) >= 10
  /\ resp[1] = Len(resp)
  /\ resp[2] = opcode
  /\ \A i \in 1..8 : resp[2 + i] = Idm[i]

(* ------------------------------------------------------------------ *)
(* C1                                                                  *)
(* ------------------------------------------------------------------ *)
\* C1: every Type3Tag.write the message write issues carries exactly
\* 16 x len(blocks) bytes, for every message length and every nbw >= 1.
C1_WritesCarryFullBlocks ==
  (opname = "write" /\ FieldNbw(attr) >= 1) =>
    \A i \in 1..Len(log) :
      log[i].cmd = "write" => Len(log[i].data) = BlockSize * Len(log[i].blocks)

(* ------------------------------------------------------------------ *)
(* C2                                                                  *)
(* ------------------------------------------------------------------ *)
\* C2: a message read that follows a completed message write of M on the
\* same store returns exactly M.
C2_RoundTrip ==
  [][(Begins("read") /\ opname = "write" /\ outcome = "ok")
       => (pc' = "idle" /\ outcome' = "ok" /\ result' = arg)]_vars

\* a 17-byte message was written, padded to two blocks, and read back
C2_Witness ==
  /\ prev = "write" /\ opname = "read" /\ outcome = "ok"
  /\ result = Msg(1, 17)
  /\ FieldNbw(attr) = 2
  /\ tag[2] = <<17>> \o Zeros(15)

(* ------------------------------------------------------------------ *)
(* C3                                                                  *)
(* ------------------------------------------------------------------ *)
\* C3: a completed message write of M issued exactly 2 + ceil(B/nbw)
\* exchanges: block 0 with writef = 0x0F and ln = len(M), then the blocks
\* 1..B in ascending order in writes of at most nbw blocks, then block 0 with
\* writef = 0x00 and the same ln.
C3_TwoPhaseOrder ==
  (opname = "write" /\ outcome = "ok" /\ FieldNbw(attr) >= 1) =>
    LET B == CeilDiv(Len(arg), BlockSize)
        n == Len(log)
    IN  /\ n = 2 + CeilDiv(B, FieldNbw(attr))
        /\ \A i \in 1..n : log[i].cmd = "write"
        /\ log[1].blocks = <<0>>
        /\ FieldWritef(log[1].data) = 15
        /\ FieldLn(log[1].data) = Len(arg)
        /\ \A i \in 2..(n - 1) : Len(log[i].blocks) \in 1..FieldNbw(attr)
        /\ BlocksNamed(log, 2, n - 1) = [b \in 1..B |-> b]
        /\ log[n].blocks = <<0>>
        /\ FieldWritef(log[n].data) = 0
        /\ FieldLn(log[n].data) = Len(arg)

\* a 32-byte message was written one block at a time
C3_Witness ==
  /\ opname = "write" /\ outcome = "ok"
  /\ Len(arg) = 32 /\ FieldNbw(attr) = 1
  /\ Len(log) = 4

(* ------------------------------------------------------------------ *)
(* C4                                                                  *)
(* ------------------------------------------------------------------ *)
\* C4: no data block of the tag changes while the tag's block 0 holds
\* writef = 0x00, and when block 0 is rewritten with writef = 0x00 the blocks
\* 1.. hold the message of the length ln that block 0 declares.
C4_DataOnlyInProgress ==
  [][/\ FieldWritef(tag[0]) = 0 => \A b \in 1..TagBlocks : tag'[b] = tag[b]
     /\ (tag'[0] # tag[0] /\ FieldWritef(tag'[0]) = 0)
          => (FieldLn(tag'[0]) = Len(arg) /\ TagBytes(tag', Len(arg)) = arg)]_vars

\* a 17-byte message was written in one chunk and block 0 rewritten with
\* writef = 0x00 over it
C4_Witness ==
  /\ opname = "write" /\ outcome = "ok"
  /\ Len(arg) = 17 /\ FieldNbw(attr) = 2
  /\ FieldWritef(tag[0]) = 0
  /\ TagBytes(tag, 17) = arg

(* ------------------------------------------------------------------ *)
(* C5                                                                  *)
(* ------------------------------------------------------------------ *)
\* C5: a failed exchange of a message write is reported to the caller, is
\* the last exchange of the operation, and leaves the tag's in-progress flag
\* set (writef = 0x0F).
C5_FailureLeavesFlagSet ==
  opname = "write" =>
    \A i \in 1..Len(log) :
      log[i].rsp # "ok" =>
        /\ i = Len(log)
        /\ pc = "idle"
        /\ outcome = ErrorOf(log[i].rsp)
        /\ FieldWritef(tag[0]) = 15

\* C5 as amended: a failed exchange of a message write is reported to the
\* caller and is the last exchange of the operation; the tag's in-progress
\* flag is set, with the new ln, when the exchange that failed is a data write
\* or the final write of block 0, and the tag is as it was before the
\* operation when it is the first write of block 0.
C5_FailureLeavesLastState ==
  [][opname' = "write" =>
       \A i \in 1..Len(log') :
         log'[i].rsp # "ok" =>
           /\ i = Len(log')
           /\ pc' = "idle"
           /\ outcome' = ErrorOf(log'[i].rsp)
           /\ i > 1 => (FieldWritef(tag'[0]) = 15 /\ FieldLn(tag'[0]) = Len(arg'))
           /\ i = 1 => tag' = tag]_vars

\* the second data write of a message failed
C5_Witness ==
  /\ opname = "write" /\ pc = "idle"
  /\ Len(log) = 3 /\ log[3].rsp = "io" /\ log[3].blocks = <<2>>
  /\ outcome = "IOError"
  /\ FieldWritef(tag[0]) = 15

(* ------------------------------------------------------------------ *)
(* C6                                                                  *)
(* ------------------------------------------------------------------ *)
\* the reads of the log name the blocks 1, 2, ... in order, at most nbr each
ReadsInOrder(l, nbr) ==
  /\ \A i \in 1..Len(l) : l[i].cmd = "read" /\ Len(l[i].blocks) \in 1..nbr
  /\ LET named == BlocksNamed(l, 1, Len(l))
     IN  named = [b \in 1..Len(named) |-> b]

\* C6: with no cached message, ln the declared length, B = ceil(ln/16) and
\* nbr >= 1, the message read issues exactly ceil(B/nbr) Type3Tag.read calls
\* (none when B = 0), each of at most nbr blocks, that name the blocks 1..B in
\* order, and returns the payloads concatenated and cut to exactly ln bytes.
C6_ReadChunking ==
  [][(pc = "rloop" /\ FieldNbr(attr) >= 1) =>
       /\ ReadsInOrder(log', FieldNbr(attr))
       /\ (pc' = "idle" /\ outcome' = "ok") =>
            LET B == CeilDiv(FieldLn(attr), BlockSize)
            IN  /\ Len(log') = CeilDiv(B, FieldNbr(attr))
                /\ BlocksNamed(log', 1, Len(log')) = [b \in 1..B |-> b]
                /\ Len(result') = FieldLn(attr)
                /\ result' = SubSeq(BytesCarried(log', 1, Len(log')), 1, FieldLn(attr))]_vars

\* a 17-byte message was read one block at a time
C6_Witness ==
  /\ opname = "read" /\ outcome = "ok"
  /\ FieldNbr(attr) = 1 /\ FieldLn(attr) = 17
  /\ Len(log) = 2
  /\ Len(result) = 17

(* ------------------------------------------------------------------ *)
(* C7                                                                  *)
(* ------------------------------------------------------------------ *)
\* C7: a message write on a store whose write-permission byte is zero fails
\* with the permission error, issues no exchange and leaves the attribute
\* block, the cache and the tag as they were, whatever the message.
C7_WriteDisabled ==
  [][(Begins("write") /\ FieldRw(attr) = 0) =>
       /\ pc' = "idle"
       /\ outcome' = "tag writing disabled"
       /\ log' = <<>>
       /\ attr' = attr
       /\ data' = data
       /\ tag' = tag]_vars

\* the empty message was refused on a read-only tag
C7_Witness ==
  /\ opname = "write" /\ outcome = "tag writing disabled"
  /\ arg = <<>>
  /\ FieldRw(attr) = 0
  /\ log = <<>>

(* ------------------------------------------------------------------ *)
(* C8                                                                  *)
(* ------------------------------------------------------------------ *)
\* C8: on a writeable store a message write of exactly capacity bytes is
\* accepted (its first exchange is issued, and it ends well when no exchange
\* fails); a message write of more than capacity bytes fails with the
\* capacity error, issues no exchange and leaves the attribute block, the
\* cache and the tag as they were.
C8_CapacityBoundary ==
  [][/\ (Begins("write") /\ FieldRw(attr) # 0 /\ Len(arg') = FieldCapacity(attr))
          => (Len(log') = 1 /\ log'[1].blocks = <<0>> /\ data' = Some(arg'))
     /\ (opname' = "write" /\ pc' = "idle" /\ FieldRw(attr') # 0
           /\ Len(arg') = FieldCapacity(attr')
           /\ \A i \in 1..Len(log') : log'[i].rsp = "ok")
          => outcome' = "ok"
     /\ (Begins("write") /\ FieldRw(attr) # 0 /\ Len(arg') > FieldCapacity(attr))
          => /\ pc' = "idle"
             /\ outcome' = "too much data"
             /\ log' = <<>>
             /\ attr' = attr
             /\ data' = data
             /\ tag' = tag]_vars

\* a message of exactly capacity bytes was written
C8_Witness ==
  /\ opname = "write" /\ outcome = "ok"
  /\ FieldRw(attr) # 0
  /\ Len(arg) = FieldCapacity(attr)
  /\ TagBytes(tag, Len(arg)) = arg

(* ------------------------------------------------------------------ *)
(* C9                                                                  *)
(* ------------------------------------------------------------------ *)
\* C9: the construction of a store reads block 0 in exactly one exchange and,
\* when the read succeeds, produces a store exactly when the checksum in bytes
\* 14..15 equals the sum of bytes 0..13; otherwise it fails with the checksum
\* error and there is no store.
C9_ConstructChecksum ==
  [][(Begins("construct") /\ sc = NdefSc) =>
       /\ Len(log') = 1 /\ log'[1].cmd = "read" /\ log'[1].blocks = <<0>>
       /\ log'[1].rsp = "ok" =>
            /\ ndef' <=> FieldChecksumOk(tag[0])
            /\ FieldChecksumOk(tag[0]) => (outcome' = "ok" /\ attr' = tag[0])
            /\ ~FieldChecksumOk(tag[0]) => outcome' = "checksum error"]_vars

\* a block 0 with a wrong high checksum byte was refused
C9_Witness ==
  /\ opname = "construct" /\ outcome = "checksum error"
  /\ ~ndef
  /\ Len(log) = 1 /\ log[1].rsp = "ok"
  /\ tag[0][16] = (SumSeq(SubSeq(tag[0], 1, 14))) % 256

(* ------------------------------------------------------------------ *)
(* C10                                                                 *)
(* ------------------------------------------------------------------ *)
\* C10: a message read that follows a message read on the same store, with
\* no message write between them, returns the same value and issues no
\* exchange, whatever happened to the tag in between.
C10_ReadIdempotent ==
  [][(Begins("read") /\ opname = "read" /\ outcome = "ok")
       => (pc' = "idle" /\ outcome' = "ok" /\ result' = result /\ log' = <<>>)]_vars

\* the second read returned the 17 bytes of the first although block 1 of the
\* tag had been overwritten in between
C10_Witness ==
  /\ prev = "read" /\ opname = "read" /\ outcome = "ok"
  /\ Len(result) = 17
  /\ tag[1] = ForeignBlock
  /\ SubSeq(result, 1, 16) # ForeignBlock
  /\ log = <<>>

(* ------------------------------------------------------------------ *)
(* C11                                                                 *)
(* ------------------------------------------------------------------ *)
\* C11: for a well-formed response to read or write, every pair of status
\* bytes (the two bytes that follow the identity) other than 00 00 is raised
\* as a command error that carries the two status bytes.
C11_BothStatusBytes ==
  LET code == IF io.op = "read" THEN 7 ELSE 9
  IN  (/\ io.op \in {"read", "write"} /\ io.done /\ ~io.raised
       /\ FrameWellFormed(io.resp, code) /\ Len(io.resp) >= 12
       /\ <<io.resp[11], io.resp[12]>> # <<0, 0>>)
      => (io.err = "tt3 command error" /\ io.status = <<io.resp[11], io.resp[12]>>)

(* ------------------------------------------------------------------ *)
(* C12                                                                 *)
(* ------------------------------------------------------------------ *)
\* C12: is_present issues exactly one exchange and raises nothing; it returns
\* true exactly when the transport answered with a response that starts with
\* its own length, the code 05 and the tag's identity, false for every other
\* response and for a failure of the transport; nothing of the channel, the
\* store or the tag changes.
C12_IsPresent ==
  [][(io.op = "present" /\ ~io.done /\ io'.done)
      => (/\ Len(io'.sent) = Len(io.sent) + 1
          /\ io'.err = "none"
          /\ io'.present = (~io.raised /\ FrameWellFormed(io.resp, 5))
          /\ tag' = tag
          /\ progvars' = progvars)]_vars

\* is_present has returned true for a response of the tag
C12_Witness ==
  /\ io.op = "present" /\ io.done /\ ~io.raised
  /\ io.present
  /\ FrameWellFormed(io.resp, 5)

(* ------------------------------------------------------------------ *)
(* C13                                                                 *)
(* ------------------------------------------------------------------ *)
\* C13: constructing a channel never fails.  With a system code other than
\* 12FC it issues no exchange and the channel has no store; with 12FC it
\* issues exactly one exchange, a read of block 0, and the channel has a store
\* exactly when that read succeeded and the block passes the checksum; every
\* error of the response, the transport or the checksum leaves a channel
\* without a store.
C13_ConstructNeverFails ==
  [][Begins("construct")
      => (/\ pc' = "idle"
          /\ IF sc = <<18, 252>>
             THEN /\ Len(log') = 1
                  /\ log'[1].cmd = "read"
                  /\ log'[1].blocks = <<0>>
                  /\ ndef' <=> (log'[1].rsp = "ok" /\ FieldChecksumOk(tag[0]))
             ELSE /\ log' = <<>>
                  /\ ~ndef')]_vars

\* a channel on an NDEF tag whose read of block 0 was answered by an error
\* status: it exists and has no store
C13_Witness ==
  /\ opname = "construct" /\ pc = "idle" /\ sc = <<18, 252>>
  /\ Len(log) = 1 /\ log[1].rsp = "status"
  /\ outcome = "tt3 command error"
  /\ ~ndef

(* ------------------------------------------------------------------ *)
(* C14                                                                 *)
(* ------------------------------------------------------------------ *)
\* C14: in every state of a constructed store, whatever reads and writes
\* came before and however they ended, the attribute block in memory has
\* bytes[14] * 256 + bytes[15] = sum(bytes[0..13]) with both checksum bytes
\* in 0..255, and so has every attribute block sent to block 0.
C14_ChecksumInvariant ==
  /\ ndef => (/\ Len(attr) = 16
              /\ FieldChecksumOk(attr)
              /\ attr[15] \in 0..255 /\ attr[16] \in 0..255)
  /\ \A i \in 1..Len(log) :
       (log[i].cmd = "write" /\ log[i].blocks = <<0>>)
         => (/\ Len(log[i].data) = 16
             /\ FieldChecksumOk(log[i].data)
             /\ log[i].data[15] \in 0..255 /\ log[i].data[16] \in 0..255)

\* a write that was aborted by the transport after block 0 was written with
\* the flag set
C14_Witness ==
  /\ ndef /\ pc = "idle" /\ opname = "write" /\ outcome = "IOError"
  /\ Len(log) >= 2
  /\ log[1].cmd = "write" /\ log[1].blocks = <<0>> /\ log[1].rsp = "ok"
  /\ FieldWritef(attr) = 15

(* ------------------------------------------------------------------ *)
(* C15                                                                 *)
(* ------------------------------------------------------------------ *)
\* the bytes of the attribute block a write leaves alone: version, nbr, nbw,
\* nmaxb, the four reserved bytes (bytes 0..8) and the permission byte 10
FixedBytes == (1..9) \cup {11}

\* C15: a message write changes only byte 9, bytes 11..13 and the checksum:
\* at every step of a write, version, nbr, nbw, nmaxb, the reserved bytes and
\* byte 10 are in memory what they were, and in every attribute block the
\* write has sent to block 0; so the version, the capacity and the write
\* permission are the same before, during and after a write, aborted or not.
C15_FrameEffect ==
  [][(ndef /\ opname' = "write")
      => \A i \in FixedBytes :
           /\ attr'[i] = attr[i]
           /\ \A k \in 1..Len(log') :
                (log'[k].cmd = "write" /\ log'[k].blocks = <<0>>) => log'[k].data[i] = attr[i]]_vars

\* a write of 32 bytes has completed on a tag that holds the permission: the
\* length and the flag were changed in the first block 0 sent
C15_Witness ==
  /\ ndef /\ pc = "idle" /\ opname = "write" /\ outcome = "ok"
  /\ Len(arg) = 32
  /\ FieldLn(attr) = 32 /\ FieldWritef(attr) = 0 /\ FieldRw(attr) = 1
  /\ FieldLn(log[1].data) = 32 /\ FieldWritef(log[1].data) = 15 /\ FieldRw(log[1].data) = 1

(* ------------------------------------------------------------------ *)
(* C16                                                                 *)
(* ------------------------------------------------------------------ *)
\* C16: after a write of M that completed with no failed exchange, for every
\* length up to the capacity and nbw >= 1, the tag holds a block 0 with
\* ln = len(M), writef = 00 and a valid checksum, and its blocks
\* 1..ceil(len(M)/16) hold M followed by zero bytes up to the block boundary.
C16_WriteOutcome ==
  (ndef /\ pc = "idle" /\ opname = "write" /\ outcome = "ok" /\ FieldNbw(attr) >= 1)
    => LET n == Len(arg)
           k == CeilDiv(n, BlockSize)
       IN  /\ FieldLn(tag[0]) = n
           /\ FieldWritef(tag[0]) = 0
           /\ FieldChecksumOk(tag[0])
           /\ TagBytes(tag, k * BlockSize) = arg \o [i \in 1..(k * BlockSize - n) |-> 0]

(* ------------------------------------------------------------------ *)
(* C17                                                                 *)
(* ------------------------------------------------------------------ *)
\* C17: whatever nbr and nbw the attribute block advertises, 0 included, a
\* read and a write finish after finitely many exchanges when every exchange
\* returns: each turn of the read loop and of the write loop that goes on to
\* another turn leaves fewer blocks to transfer than it found, so that
\* neither loop can issue exchanges for ever.
C17_LoopsTerminate ==
  [][(pc \in {"rloop", "wloop"} /\ pc' = pc) => Len(blocks') < Len(blocks)]_vars

(* ------------------------------------------------------------------ *)
(* C18                                                                 *)
(* ------------------------------------------------------------------ *)
\* C18: when an exchange of a message read fails (wrong prefix, error status
\* or transport), the read raises that error and issues no further exchange,
\* the cache stays absent and the attribute block is what it was; the read
\* begun after it starts again with block 1 and returns nothing of the
\* failed one.
C18_FailedRead ==
  [][/\ (opname' = "read" /\ log' # log /\ log' # <<>> /\ log'[Len(log')].rsp # "ok")
        => (/\ pc' = "idle"
            /\ outcome' = ErrorOf(log'[Len(log')].rsp)
            /\ result' = <<>>
            /\ data' = <<>>
            /\ attr' = attr)
     /\ (Begins("read") /\ opname = "read" /\ outcome # "ok")
        => (/\ pc' = "rloop"
            /\ log' = <<>>
            /\ buf' = <<>>
            /\ blocks' = [i \in 1..CeilDiv(FieldLn(attr), BlockSize) |-> i])]_vars

\* a read whose second exchange was answered with a wrong prefix
C18_Witness ==
  /\ ndef /\ pc = "idle" /\ opname = "read" /\ outcome = "invalid data"
  /\ Len(log) = 2 /\ log[1].rsp = "ok" /\ log[2].rsp = "frame"
  /\ data = <<>>

(* ------------------------------------------------------------------ *)
(* C19                                                                 *)
(* ------------------------------------------------------------------ *)
\* C19: with exclusive access to the tag, between the operations of a store,
\* aborted writes included, whenever block 0 of the tag holds writef = 00 the
\* attribute block in memory equals block 0 of the tag, and a cached message
\* equals the first ln bytes of the tag's blocks 1.., ln as stored on the tag.
C19_Coherence ==
  (ndef /\ pc = "idle" /\ FieldWritef(tag[0]) = 0)
    => (/\ attr = tag[0]
        /\ data # <<>> => data[1] = TagBytes(tag, FieldLn(tag[0])))

(* ------------------------------------------------------------------ *)
(* C20                                                                 *)
(* ------------------------------------------------------------------ *)
\* C20: in every state of a constructed store ln <= nmaxb x 16, and no
\* exchange of a message read or a message write names a block above nmaxb,
\* whatever attribute block the store was constructed from and whatever was
\* written since.
C20_LengthWithinCapacity ==
  ndef =>
    /\ FieldLn(attr) <= FieldCapacity(attr)
    /\ opname \in {"read", "write"} =>
         \A i \in 1..Len(log) : \A j \in 1..Len(log[i].blocks) :
           log[i].blocks[j] * BlockSize <= FieldCapacity(attr)

====
